---- MODULE Spec2Model ----
(***************************************************************************)
(* State-machine model of HybridBatchScraper (scrap.py): the persisted     *)
(* progress file, the dataset CSV file, the session statistics and the     *)
(* control flow of run_hybrid_system / run_batch / decide_continuation.    *)
(*                                                                         *)
(* Time is a calendar day (today) and an hour of the day (hour); a         *)
(* timestamp is the number of hours since day 0, hour 0.                   *)
(* Files are values: the progress file is missing, corrupt (empty or       *)
(* half-written JSON) or holds a progress dict; the CSV file holds its     *)
(* complete data rows plus a flag for a half-written tail.                 *)
(* A listing record keeps the two fields the merge can tell apart: url     *)
(* (the dedup key) and price (a payload version).                          *)
(***************************************************************************)
EXTENDS Integers, Sequences, FiniteSets, TLC

VARIABLES
    PROGRESS_FILE,   \* content of batch_progress.json
    TOTAL_CSV_FILE,  \* content of total_scrap.csv
    today,           \* calendar day of datetime.now()
    hour,            \* datetime.now().hour
    pc,              \* position of the process in run_hybrid_system
    driver,          \* self.driver is not None
    sessions,        \* browser sessions acquired by this process and not quit
    current_batch,   \* self.current_batch
    page,            \* loop variable of run_batch
    listings,        \* self.listings
    stats,           \* self.stats
    loaded,          \* value returned by the last load_progress() call
    decision,        \* outcome of the last decide_continuation() call, with the
                     \* break (minutes) it took before "CONTINUE"
    attempted,       \* pages handed to scrape_page in the current run_batch
    statsAtStart,    \* self.stats when the current run_batch started
    io,              \* outcomes of the file operations of the last step
    faults,          \* number of I/O failures, crashes and interrupts so far
    avg_response_time, \* self.stats['avg_response_time'], in whole seconds
    risk,            \* value returned by the last assess_risk_level() call
    depth,           \* run_hybrid_system calls that have not returned, less one
    history          \* what earlier steps did: the batch whose run_batch
                     \* returned last, a stop between save_batch_data and
                     \* the progress update, the two risk assessments of the
                     \* risk specification

vars == <<PROGRESS_FILE, TOTAL_CSV_FILE, today, hour, pc, driver, sessions,
          current_batch, page, listings, stats, loaded, decision, attempted,
          statsAtStart, io, faults, avg_response_time, risk, depth, history>>

----------------------------------------------------------------------------
(* Bounds of the model *)

\* I/O failures and crashes injected in one behaviour.
MaxFaults == 1

\* Last calendar day the clock reaches.
MaxDay == 1

\* Rows the dataset file holds in the store specification.
MaxRows == 2

\* Records of one batch buffer in the store specification.
MaxBatchLen == 2

\* Nested run_hybrid_system calls the interpreter allows before it raises
\* RecursionError (sys.getrecursionlimit(), scaled down).
RecursionLimit == 2

\* Pages counted by the session statistics in the risk specification.
MaxPages == 20

\* continuation_rules['daily_page_limit'], scaled to the two-page batches of
\* the model (the source configures 50 pages for ten-page batches).
daily_page_limit == 4

----------------------------------------------------------------------------
(* Configuration (HybridBatchScraper.__init__) *)

same_day_max_batches == 1

success_threshold == 90

\* continuation_rules['min_break_minutes']
min_break_minutes == 15

\* continuation_rules['max_break_minutes']
max_break_minutes == 45

\* decide_continuation: "if current_hour >= 18"
evening_hour == 18

\* self.batches: batches of two pages each; id 4 leaves a gap after id 2.
batches ==
    << [id |-> 1, start |-> 1, end |-> 2],
       [id |-> 2, start |-> 3, end |-> 4],
       [id |-> 4, start |-> 5, end |-> 6] >>

NoBatch == [id |-> 0, start |-> 0, end |-> 0]

\* Hours of the day the clock is sampled at: both sides of the evening cutoff.
HourSamples == {17, 18}

\* The url of a listing whose title element is missing (extract_listing_data).
NoUrl == "N/A"

\* What the fetcher returns for each page: the listing of page 2 repeats the
\* listing of page 1, and the listing of page 4 has no title element.
PageUrl == [p \in 1..6 |->
              CASE p \in {1, 2} -> "a"
                [] p = 3 -> "b"
                [] p = 4 -> NoUrl
                [] OTHER -> "c"]

PageListings(p) == << [url |-> PageUrl[p], price |-> 100] >>

----------------------------------------------------------------------------
(* Progress file: load_progress, create_initial_progress, save_progress *)

Missing == [kind |-> "missing"]

Corrupt == [kind |-> "corrupt"]

NoTime == -1

Now(day, hr) == day * 24 + hr

ZeroStats == [successful_pages |-> 0, failed_pages |-> 0]

SaveOutcomes == {"ok", "fail", "partial"}

\* save_progress: open(..., 'w') may fail (file untouched), json.dump may fail
\* after the truncation (half-written file); every error is logged only.
save_progress(file, progress_data, outcome) ==
    CASE outcome = "ok" -> progress_data
      [] outcome = "partial" -> Corrupt
      [] OTHER -> file

\* The dict of create_initial_progress (session_stats, never read back, is
\* left out of the persisted value).
initial_progress(day) ==
    [kind |-> "json",
     current_batch_id |-> 1,
     completed_batches |-> <<>>,
     daily_pages_scraped |-> 0,
     last_scrape_date |-> day,
     next_session_time |-> NoTime]

\* create_initial_progress without its save_progress call.
create_initial_progress_unsaved(file, day, outcome) ==
    [progress |-> initial_progress(day), file |-> file]

\* create_initial_progress: builds the default dict and saves it.
create_initial_progress(file, day, outcome) ==
    [progress |-> initial_progress(day),
     file |-> save_progress(file, initial_progress(day), outcome)]

\* load_progress: the file's dict when it exists and json.load succeeds;
\* otherwise (no file, or any exception) create_initial_progress().
load_progress(file, readErr, outcome, day) ==
    IF file.kind = "json" /\ ~readErr
    THEN [progress |-> file, file |-> file]
    ELSE create_initial_progress(file, day, outcome)

\* The inputs of one load_progress call: a read error can strike a readable
\* file only, and the save outcome matters on the fallback path only.
ReadErrs(file) == IF file.kind = "json" THEN {FALSE, TRUE} ELSE {FALSE}

LoadSaves(file, readErr) ==
    IF file.kind = "json" /\ ~readErr THEN {"none"} ELSE SaveOutcomes

Cost(readErr, outcome) ==
    (IF readErr THEN 1 ELSE 0) + (IF outcome \in {"fail", "partial"} THEN 1 ELSE 0)

\* run_batch subscripts the loaded dict with these keys
\* (progress['completed_batches'], progress['daily_pages_scraped']); a dict
\* without one of them raises KeyError there.
run_batch_keys(progress) ==
    {"completed_batches", "daily_pages_scraped"} \subseteq DOMAIN progress

\* get_next_batch: the first configured batch whose id is current_batch_id.
get_next_batch(progress) ==
    LET hits == {i \in DOMAIN batches : batches[i].id = progress.current_batch_id}
    IN IF hits = {} THEN NoBatch
       ELSE batches[CHOOSE i \in hits : \A j \in hits : i <= j]

----------------------------------------------------------------------------
(* Dataset file: load_existing_data, remove_duplicates, save_batch_data *)

NoCsv == [exists |-> FALSE, rows |-> <<>>, torn |-> FALSE]

\* The value pandas holds for a missing cell (float nan).
NaN == "NaN"

\* Cell texts pd.read_csv turns into NaN by default.
NaTexts == {"", "N/A", "NA", "n/a", "NULL", "null", "nan", "NaN", "#N/A", "None"}

\* pd.read_csv of one cell: a default NA text is read as NaN.
read_cell(text) == IF text \in NaTexts THEN NaN ELSE text

\* pd.read_csv of the data rows.
read_csv(rows) ==
    [i \in DOMAIN rows |-> [url |-> read_cell(rows[i].url), price |-> rows[i].price]]

\* load_existing_data: the file's table, or an empty DataFrame when the file
\* does not exist or reading it raises.
load_existing_data(file, readErr) ==
    IF file.exists /\ ~readErr THEN read_csv(file.rows) ELSE <<>>

\* DataFrame.drop_duplicates(subset=['url'], keep='last').
drop_duplicates_keep_last(df) ==
    LET keep(i) == \A j \in DOMAIN df : j > i => df[j].url # df[i].url
        F[i \in 0..Len(df)] ==
            IF i = 0 THEN <<>>
            ELSE IF keep(i) THEN Append(F[i - 1], df[i]) ELSE F[i - 1]
    IN F[Len(df)]

\* remove_duplicates: all of new_df when the existing table is empty; else the
\* rows of the deduplicated concatenation whose url is not an existing url.
remove_duplicates(new_df, existing_df) ==
    IF existing_df = <<>> THEN new_df
    ELSE LET combined_df == existing_df \o new_df
             deduplicated_df == drop_duplicates_keep_last(combined_df)
             existing_urls == {existing_df[i].url : i \in DOMAIN existing_df}
             isNew(r) == r.url \notin existing_urls
         IN SelectSeq(deduplicated_df, isNew)

\* DataFrame.to_csv: mode 'w' replaces the file, mode 'a' appends the rows. A
\* failed open leaves the file as it was; a write cut short leaves a
\* half-written tail (after the truncation, in mode 'w').
to_csv(file, df, mode, outcome) ==
    CASE outcome = "fail" -> file
      [] outcome = "partial" /\ mode = "w" ->
            [exists |-> TRUE, rows |-> <<>>, torn |-> TRUE]
      [] outcome = "partial" /\ mode = "a" ->
            [file EXCEPT !.torn = TRUE]
      [] outcome = "ok" /\ mode = "w" ->
            [exists |-> TRUE, rows |-> df, torn |-> FALSE]
      [] OTHER -> [file EXCEPT !.rows = @ \o df]

\* The rows save_batch_data writes, and the mode it writes them in.
unique_new_df(file, buffer, readErr) ==
    remove_duplicates(buffer, load_existing_data(file, readErr))

write_mode(file, readErr) ==
    IF load_existing_data(file, readErr) = <<>> THEN "w" ELSE "a"

\* save_batch_data: nothing for an empty buffer or when no row is new; else
\* the new rows are written, replacing the file when the existing table came
\* out empty and appended otherwise. Every exception is logged only.
save_batch_data(file, buffer, readErr, outcome) ==
    IF buffer = <<>> THEN file
    ELSE IF unique_new_df(file, buffer, readErr) = <<>> THEN file
    ELSE to_csv(file, unique_new_df(file, buffer, readErr),
                write_mode(file, readErr), outcome)

\* Inputs of one save_batch_data call: reading can raise only when the file
\* exists, and the write outcome matters only when rows are written.
CsvReadErrs(file) == IF file.exists THEN {FALSE, TRUE} ELSE {FALSE}

CsvWrites(file, buffer, readErr) ==
    IF buffer = <<>> \/ unique_new_df(file, buffer, readErr) = <<>>
    THEN {"none"} ELSE SaveOutcomes

----------------------------------------------------------------------------
(* Statistics and the continuation decision *)

PageOutcomes == {"ok", "empty", "error"}

\* scrape_page whose exception handler does not count the page.
scrape_page_stats_uncounted(st, outcome) ==
    CASE outcome = "ok" -> [st EXCEPT !.successful_pages = @ + 1]
      [] outcome = "empty" -> [st EXCEPT !.failed_pages = @ + 1]
      [] OTHER -> st

\* scrape_page, statistics: a page with listings counts as successful; a page
\* without listings, or any exception, counts as failed.
scrape_page_stats(st, outcome) ==
    IF outcome = "ok"
    THEN [st EXCEPT !.successful_pages = @ + 1]
    ELSE [st EXCEPT !.failed_pages = @ + 1]

\* time.time() - page_start_time of a page that succeeded, in seconds: the
\* sleeps of scrape_page add up to 5 + 5 + 3 * 4 + 45 = 67 at the least.
ResponseTimes == {67}

\* scrape_page, "Update response time": the running mean over the successful
\* pages (st is self.stats after successful_pages was incremented).
scrape_page_avg(avg, st, response_time, outcome) ==
    IF outcome = "ok"
    THEN (avg * (st.successful_pages - 1) + response_time) \div st.successful_pages
    ELSE avg

\* scrape_page, buffer: self.listings.extend(page_listings) on success.
scrape_page_listings(buffer, p, outcome) ==
    IF outcome = "ok" THEN buffer \o PageListings(p) ELSE buffer

\* run_batch, the page loop: whatever scrape_page returned, the next page
\* follows, and save_batch_data follows the last page.
page_loop(p, batch_info, success) ==
    IF p < batch_info.end
    THEN [page |-> p + 1, pc |-> "page"]
    ELSE [page |-> p, pc |-> "save"]

\* calculate_success_rate, rounded down to a whole percent (the code compares
\* it with whole thresholds only, so the comparison is unchanged).
calculate_success_rate(st) ==
    LET total_pages == st.successful_pages + st.failed_pages
    IN IF total_pages = 0 THEN 100
       ELSE (st.successful_pages * 100) \div total_pages

\* run_hybrid_system as a loop: "CONTINUE" starts the next round in the same
\* call.
recurse_iterative(d) == d

\* run_hybrid_system, "if decision == 'CONTINUE': self.run_hybrid_system()":
\* the next round runs in a nested call.
recurse(d) == d + 1

\* assess_risk_level with "avg_response_time <= 3" for LOW.
assess_risk_level_inclusive(st, avg) ==
    IF calculate_success_rate(st) >= 95 /\ avg <= 3 THEN "LOW"
    ELSE IF calculate_success_rate(st) >= 85 /\ avg < 5 THEN "MEDIUM"
    ELSE "HIGH"

\* assess_risk_level with the MEDIUM branch ahead of the LOW branch and
\* "success_rate <= 85".
assess_risk_level_inverted(st, avg) ==
    IF calculate_success_rate(st) <= 85 /\ avg < 5 THEN "MEDIUM"
    ELSE IF calculate_success_rate(st) >= 95 /\ avg < 3 THEN "LOW"
    ELSE "HIGH"

\* assess_risk_level.
assess_risk_level(st, avg) ==
    IF calculate_success_rate(st) >= 95 /\ avg < 3 THEN "LOW"
    ELSE IF calculate_success_rate(st) >= 85 /\ avg < 5 THEN "MEDIUM"
    ELSE "HIGH"

\* random.uniform(a, b) = a + (b - a) * random(): a value between a and b
\* whichever of them is the larger; the two ends and the middle stand for
\* the interval (whole minutes).
uniform(a, b) ==
    LET lo == IF a <= b THEN a ELSE b
        hi == IF a <= b THEN b ELSE a
    IN {lo, (lo + hi) \div 2, hi}

\* calculate_optimal_break: the values it can return for a risk level.
calculate_optimal_break(risk_level) ==
    LET base_break == min_break_minutes
        max_break == max_break_minutes
    IN IF risk_level = "LOW" THEN uniform(base_break, base_break + 30)
       ELSE IF risk_level = "MEDIUM" THEN uniform(base_break + 30, base_break + 60)
       ELSE uniform(base_break + 60, max_break)

\* len([b for b in completed_batches if b.get('date') == today]).
completed_today(progress, day) ==
    Cardinality({i \in DOMAIN progress.completed_batches :
                    progress.completed_batches[i].date = day})

\* decide_continuation with the system health check ahead of the limits.
decide_guard_health_first(progress, st, day, hr) ==
    IF calculate_success_rate(st) < success_threshold THEN 3
    ELSE IF progress.daily_pages_scraped >= daily_page_limit THEN 1
    ELSE IF completed_today(progress, day) >= same_day_max_batches THEN 2
    ELSE IF hr >= evening_hour THEN 4
    ELSE 5

\* decide_continuation: the number of the check that returns (1..4 schedule
\* tomorrow, 5 continues with a break).
decide_guard(progress, st, day, hr) ==
    IF progress.daily_pages_scraped >= daily_page_limit THEN 1
    ELSE IF completed_today(progress, day) >= same_day_max_batches THEN 2
    ELSE IF calculate_success_rate(st) < success_threshold THEN 3
    ELSE IF hr >= evening_hour THEN 4
    ELSE 5

decide_continuation(progress, st, day, hr) ==
    IF decide_guard(progress, st, day, hr) = 5 THEN "CONTINUE" ELSE "TOMORROW"

\* schedule_tomorrow with timedelta(hours=1).
schedule_tomorrow_next_hour(progress, day, hr) ==
    [progress EXCEPT !.next_session_time = Now(day, hr) + 1]

\* schedule_tomorrow: next_session_time = now + 1 day on the reloaded dict.
schedule_tomorrow(progress, day, hr) ==
    [progress EXCEPT !.next_session_time = Now(day, hr) + 24]

\* run_batch that increments the loaded current_batch_id.
run_batch_progress_increment(progress, batch_info, n_listings, day) ==
    LET n_pages == batch_info.end + 1 - batch_info.start
    IN [progress EXCEPT
          !.completed_batches = Append(@, [id |-> batch_info.id,
                                           start |-> batch_info.start,
                                           end |-> batch_info.end,
                                           date |-> day,
                                           pages_scraped |-> n_pages,
                                           listings_found |-> n_listings]),
          !.daily_pages_scraped = @ + n_pages,
          !.current_batch_id = @ + 1]

\* run_batch, "Update progress": the completion record is appended, the page
\* count is added to the daily counter, current_batch_id moves past the batch
\* (name and completed_at, never read back, are left out of the record).
run_batch_progress(progress, batch_info, n_listings, day) ==
    LET n_pages == IF batch_info.end + 1 > batch_info.start
                   THEN batch_info.end + 1 - batch_info.start ELSE 0
    IN [progress EXCEPT
          !.completed_batches = Append(@, [id |-> batch_info.id,
                                           start |-> batch_info.start,
                                           end |-> batch_info.end,
                                           date |-> day,
                                           pages_scraped |-> n_pages,
                                           listings_found |-> n_listings]),
          !.daily_pages_scraped = @ + n_pages,
          !.current_batch_id = batch_info.id + 1]

----------------------------------------------------------------------------
(* The process: main -> __init__ -> run_hybrid_system *)

IoNone == [op |-> "none", found |-> "none", read |-> FALSE, save |-> "none",
           csvRead |-> FALSE, csvWrite |-> "none"]

NoDecision == [result |-> "NONE", guard |-> 0, progress |-> Missing, break |-> 0]

Running == pc \notin {"idle", "crashed"}

NoStop == [id |-> 0, listings |-> <<>>, rows |-> <<>>]

NoHistory == [executed |-> 0, stopped |-> NoStop, assessed |-> <<>>]

\* An assess_risk_level call is remembered with its inputs, next to the call
\* before it (newest first).
assess_history(h, st, avg, level) ==
    [h EXCEPT !.assessed = <<[stats |-> st, avg |-> avg, risk |-> level]>>
                              \o SubSeq(@, 1, IF @ = <<>> THEN 0 ELSE 1)]

\* A process that ends at "progress" ends after save_batch_data() returned and
\* before run_batch updated the progress file: the batch, its buffer and the
\* rows of the dataset file at that moment are remembered.
stop_history(h, at, batch_info, buffer, file) ==
    IF at = "progress"
    THEN [h EXCEPT !.stopped = [id |-> batch_info.id, listings |-> buffer,
                                rows |-> file.rows]]
    ELSE h

\* The memory of a process that does not run.
NoProcess ==
    /\ driver' = FALSE
    /\ current_batch' = NoBatch
    /\ page' = 0
    /\ listings' = <<>>
    /\ stats' = ZeroStats
    /\ loaded' = Missing
    /\ decision' = NoDecision
    /\ attempted' = <<>>
    /\ statsAtStart' = ZeroStats
    /\ avg_response_time' = 0
    /\ risk' = "NONE"
    /\ depth' = 0

Init ==
    /\ PROGRESS_FILE = Missing
    /\ TOTAL_CSV_FILE = NoCsv
    /\ today = 0
    /\ hour \in HourSamples
    /\ pc = "idle"
    /\ driver = FALSE
    /\ sessions = 0
    /\ current_batch = NoBatch
    /\ page = 0
    /\ listings = <<>>
    /\ stats = ZeroStats
    /\ loaded = Missing
    /\ decision = NoDecision
    /\ attempted = <<>>
    /\ statsAtStart = ZeroStats
    /\ io = IoNone
    /\ faults = 0
    /\ avg_response_time = 0
    /\ risk = "NONE"
    /\ history = NoHistory
    /\ depth = 0

\* main: HybridBatchScraper() resets the session state and calls
\* load_progress(); run_hybrid_system() follows.
Start ==
    /\ ~Running
    /\ \E readErr \in ReadErrs(PROGRESS_FILE) :
       \E outcome \in LoadSaves(PROGRESS_FILE, readErr) :
          LET res == load_progress(PROGRESS_FILE, readErr, outcome, today)
          IN /\ faults + Cost(readErr, outcome) <= MaxFaults
             /\ faults' = faults + Cost(readErr, outcome)
             /\ PROGRESS_FILE' = res.file
             /\ loaded' = res.progress
             /\ io' = [IoNone EXCEPT !.op = "load", !.found = PROGRESS_FILE.kind,
                                     !.read = readErr, !.save = outcome]
    /\ pc' = "setup"
    /\ driver' = FALSE
    /\ sessions' = 0
    /\ current_batch' = NoBatch
    /\ page' = 0
    /\ listings' = <<>>
    /\ stats' = ZeroStats
    /\ decision' = NoDecision
    /\ attempted' = <<>>
    /\ statsAtStart' = ZeroStats
    /\ avg_response_time' = 0
    /\ risk' = "NONE"
    /\ UNCHANGED <<TOTAL_CSV_FILE, today, hour, history>>
    /\ depth' = 0

\* run_hybrid_system: "if not self.setup_driver(): return".
SetupDriver ==
    /\ pc = "setup"
    /\ depth < RecursionLimit
    /\ \E ok \in BOOLEAN :
          IF ok
          THEN /\ driver' = TRUE
               /\ sessions' = sessions + 1
               /\ pc' = "next"
          ELSE /\ pc' = "exit"
               /\ UNCHANGED <<driver, sessions>>
    /\ io' = IoNone
    /\ UNCHANGED <<PROGRESS_FILE, TOTAL_CSV_FILE, today, hour, current_batch, page,
                   listings, stats, loaded, decision, attempted, statsAtStart, faults,
                   avg_response_time, risk, history>>
    /\ UNCHANGED depth

\* The nested call exceeds the interpreter's recursion limit: RecursionError
\* reaches "except Exception" ("Unexpected error") of a run_hybrid_system
\* call, "finally" follows in every call on the stack.
RecursionLimitReached ==
    /\ pc = "setup"
    /\ depth >= RecursionLimit
    /\ pc' = "exit"
    /\ io' = [IoNone EXCEPT !.op = "RecursionError"]
    /\ UNCHANGED <<PROGRESS_FILE, TOTAL_CSV_FILE, today, hour, driver, sessions,
                   current_batch, page, listings, stats, loaded, decision, attempted,
                   statsAtStart, faults, avg_response_time, risk, depth, history>>

\* run_hybrid_system: next_batch = self.get_next_batch(); without one the run
\* ends, with one run_batch starts (self.listings = []).
GetNextBatch ==
    /\ pc = "next"
    /\ \E readErr \in ReadErrs(PROGRESS_FILE) :
       \E outcome \in LoadSaves(PROGRESS_FILE, readErr) :
          LET res == load_progress(PROGRESS_FILE, readErr, outcome, today)
              next_batch == get_next_batch(res.progress)
          IN /\ faults + Cost(readErr, outcome) <= MaxFaults
             /\ faults' = faults + Cost(readErr, outcome)
             /\ PROGRESS_FILE' = res.file
             /\ loaded' = res.progress
             /\ io' = [IoNone EXCEPT !.op = "load", !.found = PROGRESS_FILE.kind,
                                     !.read = readErr, !.save = outcome]
             /\ IF next_batch = NoBatch
                THEN /\ pc' = "exit"
                     /\ UNCHANGED <<current_batch, page, listings, attempted,
                                    statsAtStart>>
                ELSE /\ pc' = IF next_batch.start <= next_batch.end
                              THEN "page" ELSE "save"
                     /\ current_batch' = next_batch
                     /\ page' = next_batch.start
                     /\ listings' = <<>>
                     /\ attempted' = <<>>
                     /\ statsAtStart' = stats
    /\ UNCHANGED <<TOTAL_CSV_FILE, today, hour, driver, sessions, stats, decision,
                   avg_response_time, risk, history>>
    /\ UNCHANGED depth

\* run_batch, one iteration of "for page in range(start, end + 1)":
\* scrape_page(page), then the page delay unless it was the last page.
ScrapePage ==
    /\ pc = "page"
    /\ \E outcome \in PageOutcomes :
       \E response_time \in ResponseTimes :
          /\ stats' = scrape_page_stats(stats, outcome)
          /\ avg_response_time' = scrape_page_avg(avg_response_time, stats',
                                                  response_time, outcome)
          /\ listings' = scrape_page_listings(listings, page, outcome)
          /\ attempted' = Append(attempted, [page |-> page, ok |-> outcome = "ok",
                                             outcome |-> outcome])
          /\ page' = page_loop(page, current_batch, outcome = "ok").page
          /\ pc' = page_loop(page, current_batch, outcome = "ok").pc
    /\ io' = IoNone
    /\ UNCHANGED <<PROGRESS_FILE, TOTAL_CSV_FILE, today, hour, driver, sessions,
                   current_batch, loaded, decision, statsAtStart, faults, risk,
                   history>>
    /\ UNCHANGED depth

\* run_batch: self.save_batch_data().
SaveBatchData ==
    /\ pc = "save"
    /\ \E readErr \in CsvReadErrs(TOTAL_CSV_FILE) :
       \E outcome \in CsvWrites(TOTAL_CSV_FILE, listings, readErr) :
          /\ faults + Cost(readErr, outcome) <= MaxFaults
          /\ faults' = faults + Cost(readErr, outcome)
          /\ TOTAL_CSV_FILE' = save_batch_data(TOTAL_CSV_FILE, listings, readErr, outcome)
          /\ io' = [IoNone EXCEPT !.op = "save_batch_data", !.csvRead = readErr,
                                  !.csvWrite = outcome]
    /\ pc' = "progress"
    /\ UNCHANGED <<PROGRESS_FILE, today, hour, driver, sessions, current_batch, page,
                   listings, stats, loaded, decision, attempted, statsAtStart,
                   avg_response_time, risk, history>>
    /\ UNCHANGED depth

\* run_batch, "Update progress": load_progress(), the update of the dict,
\* save_progress(progress).
UpdateProgress ==
    /\ pc = "progress"
    /\ \E readErr \in ReadErrs(PROGRESS_FILE) :
       \E outcome \in LoadSaves(PROGRESS_FILE, readErr) :
       \E saved \in SaveOutcomes :
          LET res == load_progress(PROGRESS_FILE, readErr, outcome, today)
              progress == run_batch_progress(res.progress, current_batch,
                                             Len(listings), today)
              cost == Cost(readErr, outcome) + Cost(FALSE, saved)
          IN /\ run_batch_keys(res.progress)
             /\ faults + cost <= MaxFaults
             /\ faults' = faults + cost
             /\ PROGRESS_FILE' = save_progress(res.file, progress, saved)
             /\ loaded' = res.progress
             /\ io' = [IoNone EXCEPT !.op = "run_batch", !.read = readErr,
                                     !.save = saved]
    /\ pc' = "decide"
    /\ history' = [history EXCEPT !.executed = current_batch.id,
                                  !.stopped = NoStop]
    /\ UNCHANGED <<TOTAL_CSV_FILE, today, hour, driver, sessions, current_batch, page,
                   listings, stats, decision, attempted, statsAtStart,
                   avg_response_time, risk>>
    /\ UNCHANGED depth

\* run_batch, "Update progress", on a dict without one of the keys it
\* subscripts: KeyError leaves run_batch before save_progress and reaches
\* "except Exception" of run_hybrid_system ("Unexpected error"), "finally"
\* follows.
UpdateProgressKeyError ==
    /\ pc = "progress"
    /\ \E readErr \in ReadErrs(PROGRESS_FILE) :
       \E outcome \in LoadSaves(PROGRESS_FILE, readErr) :
          LET res == load_progress(PROGRESS_FILE, readErr, outcome, today)
          IN /\ ~run_batch_keys(res.progress)
             /\ faults + Cost(readErr, outcome) <= MaxFaults
             /\ faults' = faults + Cost(readErr, outcome)
             /\ PROGRESS_FILE' = res.file
             /\ loaded' = res.progress
             /\ io' = [IoNone EXCEPT !.op = "KeyError", !.read = readErr,
                                     !.save = outcome]
    /\ pc' = "exit"
    /\ UNCHANGED <<TOTAL_CSV_FILE, today, hour, driver, sessions, current_batch, page,
                   listings, stats, decision, attempted, statsAtStart,
                   avg_response_time, risk, history>>
    /\ UNCHANGED depth

\* decide_continuation when one of the four checks returns schedule_tomorrow():
\* the dict is loaded again, next_session_time is set, the dict is saved.
DecideTomorrow ==
    /\ pc = "decide"
    /\ \E readErr \in ReadErrs(PROGRESS_FILE) :
       \E outcome \in LoadSaves(PROGRESS_FILE, readErr) :
          LET res == load_progress(PROGRESS_FILE, readErr, outcome, today)
          IN /\ decide_continuation(res.progress, stats, today, hour) = "TOMORROW"
             /\ decision' = [result |-> "TOMORROW",
                             guard |-> decide_guard(res.progress, stats, today, hour),
                             progress |-> res.progress,
                             break |-> 0]
             /\ \E readErr2 \in ReadErrs(res.file) :
                \E outcome2 \in LoadSaves(res.file, readErr2) :
                \E saved \in SaveOutcomes :
                   LET res2 == load_progress(res.file, readErr2, outcome2, today)
                       cost == Cost(readErr, outcome) + Cost(readErr2, outcome2)
                                 + Cost(FALSE, saved)
                   IN /\ faults + cost <= MaxFaults
                      /\ faults' = faults + cost
                      /\ PROGRESS_FILE' =
                            save_progress(res2.file,
                                          schedule_tomorrow(res2.progress, today, hour),
                                          saved)
                      /\ loaded' = res2.progress
                      /\ io' = [IoNone EXCEPT !.op = "schedule_tomorrow",
                                              !.read = readErr \/ readErr2,
                                              !.save = saved]
    /\ pc' = "exit"
    /\ UNCHANGED <<TOTAL_CSV_FILE, today, hour, driver, sessions, current_batch, page,
                   listings, stats, attempted, statsAtStart, avg_response_time, risk,
                   history>>
    /\ UNCHANGED depth

\* decide_continuation when all checks pass: continue_with_break() runs
\* intelligent_break (the driver is quit, and set up again after the break),
\* returns "CONTINUE", and run_hybrid_system calls itself.
DecideContinue ==
    /\ pc = "decide"
    /\ \E readErr \in ReadErrs(PROGRESS_FILE) :
       \E outcome \in LoadSaves(PROGRESS_FILE, readErr) :
          LET res == load_progress(PROGRESS_FILE, readErr, outcome, today)
          IN /\ decide_continuation(res.progress, stats, today, hour) = "CONTINUE"
             /\ \E break_duration \in calculate_optimal_break(
                                         assess_risk_level(stats, avg_response_time)) :
                   decision' = [result |-> "CONTINUE",
                                guard |-> decide_guard(res.progress, stats, today,
                                                       hour),
                                progress |-> res.progress,
                                break |-> break_duration]
             /\ faults + Cost(readErr, outcome) <= MaxFaults
             /\ faults' = faults + Cost(readErr, outcome)
             /\ PROGRESS_FILE' = res.file
             /\ loaded' = res.progress
             /\ io' = [IoNone EXCEPT !.op = "continue_with_break",
                                     !.read = readErr, !.save = outcome]
    /\ \E ok \in BOOLEAN :
          /\ driver' = ok
          /\ sessions' = sessions - (IF driver THEN 1 ELSE 0) + (IF ok THEN 1 ELSE 0)
    /\ risk' = assess_risk_level(stats, avg_response_time)
    /\ depth' = recurse(depth)
    /\ pc' = "setup"
    /\ UNCHANGED <<TOTAL_CSV_FILE, today, hour, current_batch, page, listings, stats,
                   attempted, statsAtStart, avg_response_time, history>>

\* run_hybrid_system, "finally": the driver is quit; the process ends.
Exit ==
    /\ pc = "exit"
    /\ pc' = "idle"
    /\ sessions' = sessions - (IF driver THEN 1 ELSE 0)
    /\ NoProcess
    /\ io' = IoNone
    /\ UNCHANGED <<PROGRESS_FILE, TOTAL_CSV_FILE, today, hour, faults, history>>

\* The process is killed between two file operations.
Crash ==
    /\ Running
    /\ faults < MaxFaults
    /\ faults' = faults + 1
    /\ pc' = "crashed"
    /\ NoProcess
    /\ io' = [IoNone EXCEPT !.op = "crash"]
    /\ history' = stop_history(history, pc, current_batch, listings, TOTAL_CSV_FILE)
    /\ UNCHANGED <<PROGRESS_FILE, TOTAL_CSV_FILE, today, hour, sessions>>

\* The process is killed inside run_batch's save_progress, after
\* open(PROGRESS_FILE, 'w') truncated the file and before json.dump finished.
CrashInSaveProgress ==
    /\ pc = "progress"
    /\ faults < MaxFaults
    /\ faults' = faults + 1
    /\ PROGRESS_FILE' = save_progress(PROGRESS_FILE, PROGRESS_FILE, "partial")
    /\ pc' = "crashed"
    /\ NoProcess
    /\ io' = [IoNone EXCEPT !.op = "crash", !.save = "partial"]
    /\ UNCHANGED <<TOTAL_CSV_FILE, today, hour, sessions, history>>

\* The process is killed inside save_batch_data's to_csv, while rows are
\* being written.
CrashInSaveBatchData ==
    /\ pc = "save"
    /\ faults < MaxFaults
    /\ "partial" \in CsvWrites(TOTAL_CSV_FILE, listings, FALSE)
    /\ faults' = faults + 1
    /\ TOTAL_CSV_FILE' = save_batch_data(TOTAL_CSV_FILE, listings, FALSE, "partial")
    /\ pc' = "crashed"
    /\ NoProcess
    /\ io' = [IoNone EXCEPT !.op = "crash", !.csvWrite = "partial"]
    /\ UNCHANGED <<PROGRESS_FILE, today, hour, sessions, history>>

\* run_hybrid_system, "except KeyboardInterrupt": the interrupt arrives between
\* two file operations of the try block; the handler logs "Stopped by user",
\* "finally" follows.
Interrupt ==
    /\ pc \in {"setup", "next", "page", "save", "progress", "decide"}
    /\ faults < MaxFaults
    /\ faults' = faults + 1
    /\ pc' = "exit"
    /\ io' = [IoNone EXCEPT !.op = "interrupt"]
    /\ history' = stop_history(history, pc, current_batch, listings, TOTAL_CSV_FILE)
    /\ UNCHANGED <<PROGRESS_FILE, TOTAL_CSV_FILE, today, hour, driver, sessions,
                   current_batch, page, listings, stats, loaded, decision, attempted,
                   statsAtStart, avg_response_time, risk>>
    /\ UNCHANGED depth

\* The interrupt arrives inside run_batch's save_progress, after
\* open(PROGRESS_FILE, 'w') and before json.dump finished: KeyboardInterrupt is
\* not an Exception, so "except Exception" of save_progress lets it pass to
\* the handler of run_hybrid_system.
InterruptInSaveProgress ==
    /\ pc = "progress"
    /\ faults < MaxFaults
    /\ faults' = faults + 1
    /\ PROGRESS_FILE' = save_progress(PROGRESS_FILE, PROGRESS_FILE, "partial")
    /\ pc' = "exit"
    /\ io' = [IoNone EXCEPT !.op = "interrupt", !.save = "partial"]
    /\ UNCHANGED <<TOTAL_CSV_FILE, today, hour, driver, sessions, current_batch, page,
                   listings, stats, loaded, decision, attempted, statsAtStart,
                   avg_response_time, risk, history>>
    /\ UNCHANGED depth

\* Time passes (every sleep of the process, and the time between two runs).
Tick ==
    /\ \/ today' = today /\ hour' \in {h \in HourSamples : h > hour}
       \/ today < MaxDay /\ today' = today + 1 /\ hour' \in HourSamples
    /\ UNCHANGED <<PROGRESS_FILE, TOTAL_CSV_FILE, pc, driver, sessions, current_batch,
                   page, listings, stats, loaded, decision, attempted, statsAtStart,
                   io, faults, avg_response_time, risk, history>>
    /\ UNCHANGED depth

Next ==
    \/ Start
    \/ SetupDriver
    \/ RecursionLimitReached
    \/ GetNextBatch
    \/ ScrapePage
    \/ SaveBatchData
    \/ UpdateProgress
    \/ DecideTomorrow
    \/ DecideContinue
    \/ Exit
    \/ Crash
    \/ CrashInSaveProgress
    \/ CrashInSaveBatchData
    \/ Interrupt
    \/ InterruptInSaveProgress
    \/ Tick

Spec == Init /\ [][Next]_vars

----------------------------------------------------------------------------
(* The dataset store on its own: save_batch_data applied to every batch    *)
(* buffer of up to MaxBatchLen records, starting from an absent file.      *)

StoreUrls == {"a", "b", NoUrl}

Prices == {100, 120}

Records == [url : StoreUrls, price : Prices]

Buffers == UNION {[1..n -> Records] : n \in 0..MaxBatchLen}

StoreInit == Init /\ hour = 17

\* One batch: run_batch fills self.listings, then calls save_batch_data().
MergeBatch ==
    /\ \E buffer \in Buffers :
       \E readErr \in CsvReadErrs(TOTAL_CSV_FILE) :
       \E outcome \in CsvWrites(TOTAL_CSV_FILE, buffer, readErr) :
          /\ listings' = buffer
          /\ TOTAL_CSV_FILE' = save_batch_data(TOTAL_CSV_FILE, buffer, readErr, outcome)
          /\ Len(TOTAL_CSV_FILE'.rows) <= MaxRows
          /\ io' = [IoNone EXCEPT !.op = "save_batch_data", !.csvRead = readErr,
                                  !.csvWrite = outcome]
    /\ UNCHANGED <<PROGRESS_FILE, today, hour, pc, driver, sessions, current_batch,
                   page, stats, loaded, decision, attempted, statsAtStart, faults,
                   avg_response_time, risk, history>>
    /\ UNCHANGED depth

StoreNext == MergeBatch

StoreSpec == StoreInit /\ [][StoreNext]_vars

----------------------------------------------------------------------------
(* One run of run_hybrid_system in which every operation returns: the      *)
(* process is not killed or interrupted, save_progress may fail in every    *)
(* round, and a step that can be taken is taken.                            *)

\* run_batch, "Update progress", with a save_progress that raises or stops
\* half-way (logged only); such failures are not limited in number.
UpdateProgressSaveFails ==
    /\ pc = "progress"
    /\ \E outcome \in LoadSaves(PROGRESS_FILE, FALSE) :
       \E saved \in SaveOutcomes \ {"ok"} :
          LET res == load_progress(PROGRESS_FILE, FALSE, outcome, today)
              progress == run_batch_progress(res.progress, current_batch,
                                             Len(listings), today)
          IN /\ run_batch_keys(res.progress)
             /\ PROGRESS_FILE' = save_progress(res.file, progress, saved)
             /\ loaded' = res.progress
             /\ io' = [IoNone EXCEPT !.op = "run_batch", !.save = saved]
    /\ pc' = "decide"
    /\ history' = [history EXCEPT !.executed = current_batch.id,
                                  !.stopped = NoStop]
    /\ UNCHANGED <<TOTAL_CSV_FILE, today, hour, driver, sessions, current_batch, page,
                   listings, stats, decision, attempted, statsAtStart, faults,
                   avg_response_time, risk, depth>>

\* The steps of a running run_hybrid_system call.
RunStep ==
    \/ SetupDriver
    \/ RecursionLimitReached
    \/ GetNextBatch
    \/ ScrapePage
    \/ SaveBatchData
    \/ UpdateProgress
    \/ UpdateProgressSaveFails
    \/ DecideTomorrow
    \/ DecideContinue

LiveNext ==
    \/ Start
    \/ RunStep
    \/ Tick

LiveSpec == Init /\ [][LiveNext]_vars /\ WF_vars(RunStep)

----------------------------------------------------------------------------
(* The scraper started on a progress file that another version of the      *)
(* program wrote: valid JSON without one of the keys, or with a key the     *)
(* code does not know.                                                      *)

WithoutKey(progress, key) ==
    [k \in DOMAIN progress \ {key} |-> progress[k]]

WithUnknownKey(progress) ==
    [k \in DOMAIN progress \cup {"schema_version"} |->
        IF k = "schema_version" THEN 2 ELSE progress[k]]

OtherVersionFiles ==
    { WithoutKey(initial_progress(0), "daily_pages_scraped"),
      WithoutKey(initial_progress(0), "completed_batches"),
      WithUnknownKey(initial_progress(0)) }

CompatInit ==
    /\ PROGRESS_FILE \in OtherVersionFiles
    /\ TOTAL_CSV_FILE = NoCsv
    /\ today = 0
    /\ hour = 17
    /\ pc = "idle"
    /\ driver = FALSE
    /\ sessions = 0
    /\ current_batch = NoBatch
    /\ page = 0
    /\ listings = <<>>
    /\ stats = ZeroStats
    /\ loaded = Missing
    /\ decision = NoDecision
    /\ attempted = <<>>
    /\ statsAtStart = ZeroStats
    /\ io = IoNone
    /\ faults = 0
    /\ avg_response_time = 0
    /\ risk = "NONE"
    /\ history = NoHistory
    /\ depth = 0

CompatNext ==
    \/ Next
    \/ UpdateProgressKeyError

CompatSpec == CompatInit /\ [][CompatNext]_vars

----------------------------------------------------------------------------
(* The risk assessor on its own: assess_risk_level applied to every session *)
(* statistics of up to MaxPages pages, for one avg_response_time.           *)

\* self.stats['avg_response_time'] in whole seconds, around the thresholds 3
\* and 5 of assess_risk_level.
AvgSamples == 0 .. 6 \cup ResponseTimes

RiskInit ==
    /\ PROGRESS_FILE = Missing
    /\ TOTAL_CSV_FILE = NoCsv
    /\ today = 0
    /\ hour = 17
    /\ pc = "decide"
    /\ driver = TRUE
    /\ sessions = 1
    /\ current_batch = NoBatch
    /\ page = 0
    /\ listings = <<>>
    /\ stats = ZeroStats
    /\ loaded = Missing
    /\ decision = NoDecision
    /\ attempted = <<>>
    /\ statsAtStart = ZeroStats
    /\ io = IoNone
    /\ faults = 0
    /\ avg_response_time \in AvgSamples
    /\ risk = "NONE"
    /\ history = NoHistory
    /\ depth = 0

\* calculate_optimal_break: risk_level = self.assess_risk_level(), for any
\* page counters the session may have reached; a behaviour holds two calls.
AssessRisk ==
    /\ Len(history.assessed) < 2
    /\ \E s \in 0 .. MaxPages :
       \E f \in 0 .. (MaxPages - s) :
          stats' = [successful_pages |-> s, failed_pages |-> f]
    /\ risk' = assess_risk_level(stats', avg_response_time)
    /\ history' = assess_history(history, stats', avg_response_time, risk')
    /\ UNCHANGED <<PROGRESS_FILE, TOTAL_CSV_FILE, today, hour, pc, driver, sessions,
                   current_batch, page, listings, loaded, decision, attempted,
                   statsAtStart, io, faults, avg_response_time>>
    /\ UNCHANGED depth

RiskNext == AssessRisk

RiskSpec == RiskInit /\ [][RiskNext]_vars

----------------------------------------------------------------------------
(* Claims about the dataset store (checked under StoreSpec) *)

Rows == TOTAL_CSV_FILE.rows

UrlsOf(rows) == {rows[i].url : i \in DOMAIN rows}

\* The last step was a save_batch_data call in which no read raised and no
\* write failed.
CleanMerge(step) ==
    /\ step.op = "save_batch_data"
    /\ ~step.csvRead
    /\ step.csvWrite \in {"ok", "none"}

UniqueUrls(rows) ==
    \A i, j \in DOMAIN rows : i # j => rows[i].url # rows[j].url

\* The version of url u a buffer holds last.
LastVersion(buffer, u) ==
    buffer[CHOOSE i \in DOMAIN buffer :
              /\ buffer[i].url = u
              /\ \A j \in DOMAIN buffer : buffer[j].url = u => j <= i]

\* C1: keep-last merge. When a batch is merged whose record has a url the
\* store already holds, the store afterwards holds exactly one record for
\* that url and it is the batch's version. Stated for a store without
\* duplicate urls, a merge without I/O failure and a url other than "N/A".
C1_KeepLastMerge ==
    [][ (CleanMerge(io') /\ UniqueUrls(Rows) /\ ~TOTAL_CSV_FILE.torn)
        => \A u \in (UrlsOf(listings') \cap UrlsOf(Rows)) \ {NoUrl} :
              /\ Cardinality({i \in DOMAIN Rows' : Rows'[i].url = u}) = 1
              /\ \E i \in DOMAIN Rows' : Rows'[i] = LastVersion(listings', u)
      ]_vars

\* C2: dataset uniqueness. After any sequence of merges that starts from an
\* absent dataset file, no two records of the store share a url (stated for
\* the urls other than "N/A").
C2_DatasetUniqueUrls ==
    \A i, j \in DOMAIN Rows :
        (i # j /\ Rows[i].url # NoUrl) => Rows[i].url # Rows[j].url

\* C3: merges never remove rows. Every url the store holds before a
\* save_batch_data call is still in the store after it, also when reading the
\* existing file fails (stated for the calls whose write does not fail).
C3_MergeKeepsExistingRows ==
    [][ io'.csvWrite \in {"ok", "none"} => UrlsOf(Rows) \subseteq UrlsOf(Rows') ]_vars

\* C4: idempotent merge. Merging the record set that was merged last once
\* more leaves the store as it is (both merges without I/O failure).
C4_IdempotentMerge ==
    [][ (CleanMerge(io) /\ CleanMerge(io') /\ listings' = listings)
        => TOTAL_CSV_FILE' = TOTAL_CSV_FILE ]_vars

----------------------------------------------------------------------------
(* Claims about the progress store and the batch runner (checked under Spec) *)

Completed == PROGRESS_FILE.completed_batches

PagesOf(batch_info) == batch_info.end + 1 - batch_info.start

\* The step is run_batch's "Update progress" and its save_progress succeeded.
BatchSaved == pc = "decide" /\ io.op = "run_batch" /\ io.save = "ok"

\* C5: batch id invariant. In every persisted progress state whose
\* completed_batches log is not empty, current_batch_id is 1 + the id of the
\* last entry; after a run_batch whose progress was saved, it is the id of the
\* batch that was run + 1.
C5_BatchIdInvariant ==
    /\ (PROGRESS_FILE.kind = "json" /\ Completed # <<>>)
          => PROGRESS_FILE.current_batch_id = Completed[Len(Completed)].id + 1
    /\ BatchSaved
          => /\ PROGRESS_FILE.kind = "json"
             /\ PROGRESS_FILE.current_batch_id = current_batch.id + 1

C5_Witness ==
    /\ BatchSaved
    /\ Len(Completed) = 2
    /\ Completed[1].id = 1
    /\ Completed[2].id = 2
    /\ PROGRESS_FILE.current_batch_id = 3

\* C6: daily reset. When run_batch accounts for a batch on a calendar day
\* later than the persisted last_scrape_date, the saved daily_pages_scraped
\* counts the pages of that batch only.
C6_DailyReset ==
    [][ ( /\ pc = "progress"
          /\ pc' = "decide"
          /\ io'.save = "ok"
          /\ ~io'.read
          /\ PROGRESS_FILE.kind = "json"
          /\ PROGRESS_FILE.last_scrape_date < today )
        => PROGRESS_FILE'.daily_pages_scraped = PagesOf(current_batch) ]_vars

\* C7: continuation decision. decide_continuation returns TOMORROW exactly
\* when one of the four guards holds of the progress it loaded, the session
\* statistics and the clock, and CONTINUE otherwise; the first guard that
\* holds is the one that returns.
C7_ContinuationDecision ==
    [][ (pc = "decide" /\ pc' \in {"exit", "setup"} /\ io'.op # "interrupt")
        => LET p == decision'.progress
               total == stats.successful_pages + stats.failed_pages
               g1 == p.daily_pages_scraped >= daily_page_limit
               g2 == \E done \in SUBSET DOMAIN p.completed_batches :
                        /\ Cardinality(done) >= same_day_max_batches
                        /\ \A i \in done : p.completed_batches[i].date = today
               g3 == total > 0 /\
                     stats.successful_pages * 100 < success_threshold * total
               g4 == hour >= 18
               first == CASE g1 -> 1 [] ~g1 /\ g2 -> 2 [] ~g1 /\ ~g2 /\ g3 -> 3
                          [] ~g1 /\ ~g2 /\ ~g3 /\ g4 -> 4 [] OTHER -> 5
           IN /\ decision'.result = "TOMORROW" <=> (g1 \/ g2 \/ g3 \/ g4)
              /\ decision'.result = "CONTINUE" <=> ~(g1 \/ g2 \/ g3 \/ g4)
              /\ decision'.guard = first
              /\ pc' = "exit" <=> decision'.result = "TOMORROW"
      ]_vars

\* Guard 1 and guard 3 both hold and the decision was taken by guard 1.
C7_Witness ==
    /\ pc = "exit"
    /\ decision.result = "TOMORROW"
    /\ decision.guard = 1
    /\ decision.progress.daily_pages_scraped = daily_page_limit
    /\ stats.successful_pages * 100
          < success_threshold * (stats.successful_pages + stats.failed_pages)

InBatch == pc \in {"page", "save", "progress", "decide"}

CountOk(att) == Cardinality({i \in DOMAIN att : att[i].ok})

\* C8: page-failure containment. run_batch attempts the pages start..end once
\* each in ascending order, whichever of them fail; every attempted page is
\* counted once, as successful or as failed; after the last page the batch
\* goes on to save_batch_data and to the progress update, which appends the
\* completion record and moves current_batch_id to batch id + 1 (persisted
\* when save_progress succeeds); only the end of the process (a kill, or
\* KeyboardInterrupt) takes the batch off this path.
C8_PageFailureContainment ==
    /\ [](InBatch =>
            /\ Len(attempted) = (IF pc = "page" THEN page - current_batch.start
                                 ELSE PagesOf(current_batch))
            /\ \A i \in DOMAIN attempted :
                  attempted[i].page = current_batch.start + i - 1
            /\ stats.successful_pages
                  = statsAtStart.successful_pages + CountOk(attempted)
            /\ stats.failed_pages
                  = statsAtStart.failed_pages + Len(attempted) - CountOk(attempted))
    /\ [](BatchSaved =>
            /\ PROGRESS_FILE.kind = "json"
            /\ Completed # <<>>
            /\ Completed[Len(Completed)].id = current_batch.id
            /\ Completed[Len(Completed)].pages_scraped = Len(attempted)
            /\ PROGRESS_FILE.current_batch_id = current_batch.id + 1)
    /\ [][ io'.op # "interrupt"
            => /\ pc = "page" => pc' \in {"page", "save", "crashed"}
               /\ pc = "save" => pc' \in {"save", "progress", "crashed"}
               /\ pc = "progress" => pc' \in {"progress", "decide", "crashed"} ]_vars

\* A batch whose first page failed and whose second page succeeded is
\* completed and recorded.
C8_Witness ==
    /\ BatchSaved
    /\ current_batch.id = 1
    /\ Len(attempted) = 2
    /\ ~attempted[1].ok
    /\ attempted[2].ok
    /\ stats = [successful_pages |-> 1, failed_pages |-> 1]
    /\ PROGRESS_FILE.current_batch_id = 2

\* The step is a load_progress call of __init__ or of get_next_batch.
LoadStep ==
    /\ io'.op = "load"
    /\ \/ pc \in {"idle", "crashed"} /\ pc' = "setup"
       \/ pc = "next" /\ pc' \in {"page", "save", "exit"}

IsDefault(progress) ==
    /\ progress.kind = "json"
    /\ progress.current_batch_id = 1
    /\ progress.daily_pages_scraped = 0
    /\ progress.completed_batches = <<>>
    /\ progress.last_scrape_date = today

\* C9: progress load never fails. load_progress returns the persisted state
\* when the file is readable; the default state when the file is missing,
\* which it then saves; the default state when the file is corrupt or cannot
\* be read; and in every case the caller goes on.
C9_ProgressLoadNeverFails ==
    [][ LoadStep =>
          /\ (PROGRESS_FILE.kind = "json" /\ ~io'.read)
                => loaded' = PROGRESS_FILE /\ PROGRESS_FILE' = PROGRESS_FILE
          /\ PROGRESS_FILE.kind = "missing"
                => /\ IsDefault(loaded')
                   /\ io'.save = "ok" => PROGRESS_FILE' = loaded'
          /\ (PROGRESS_FILE.kind = "corrupt" \/ io'.read) => IsDefault(loaded')
      ]_vars

\* get_next_batch found a corrupt progress file, got the default state and
\* started batch 1.
C9_Witness ==
    /\ pc = "page"
    /\ io.op = "load"
    /\ io.found = "corrupt"
    /\ IsDefault(loaded)
    /\ current_batch.id = 1

\* C10: crash-safe writes. A crash leaves the progress file and the dataset
\* file each either as it was before the write or complete.
C10_CrashSafeWrites ==
    [][ pc' = "crashed" =>
          /\ PROGRESS_FILE' = PROGRESS_FILE \/ PROGRESS_FILE'.kind = "json"
          /\ TOTAL_CSV_FILE' = TOTAL_CSV_FILE \/ ~TOTAL_CSV_FILE'.torn ]_vars

----------------------------------------------------------------------------
(* Claims about interruption, batch order and batch selection *)

InterruptStep == pc # "exit" /\ pc' = "exit" /\ io'.op = "interrupt"

\* C11: when KeyboardInterrupt ends run_hybrid_system after run_batch merged
\* the pages of a batch into the dataset, save_progress is called before the
\* process ends, and the interrupt leaves no store file half-written.
C11_InterruptSavesProgress ==
    [][InterruptStep /\ pc = "progress"
          => /\ io'.save \in {"ok", "fail"}
             /\ PROGRESS_FILE' # Corrupt
             /\ ~TOTAL_CSV_FILE'.torn]_vars

\* The step is get_next_batch handing a batch to run_batch.
HandOver == pc = "next" /\ pc' \in {"page", "save"}

\* C12: batch ordering. Every batch handed to run_batch has an id above the
\* id of every batch whose run_batch has returned, in this process or in an
\* earlier one, whatever save failed and whatever load fell back to defaults.
C12_BatchOrdering ==
    [][HandOver => current_batch'.id > history.executed]_vars

CompletedIds(progress) ==
    {progress.completed_batches[i].id : i \in DOMAIN progress.completed_batches}

\* C13: next-batch selection. In a run without any failure, the batch that
\* get_next_batch returns has the persisted current_batch_id, and when it
\* returns none (the run ends with "All batches completed!") every
\* configured batch is in completed_batches.
C13_NextBatchSelection ==
    [][ (pc = "next" /\ io'.op = "load" /\ faults' = 0)
        => /\ HandOver => current_batch'.id = loaded'.current_batch_id
           /\ pc' = "exit"
                 => \A i \in DOMAIN batches :
                       batches[i].id \in CompletedIds(loaded') ]_vars

----------------------------------------------------------------------------
(* Claims about the risk assessor (checked under RiskSpec) *)

\* success_rate >= percent, on the exact quotient 100 * s / (s + f); the
\* rate is 100 when no page was attempted.
RateAtLeast(st, percent) ==
    LET total == st.successful_pages + st.failed_pages
    IN IF total = 0 THEN 100 >= percent
       ELSE 100 * st.successful_pages >= percent * total

\* C14: risk assessment. The level assess_risk_level returned is LOW exactly
\* when the success rate is at least 95 and avg_response_time is below 3,
\* MEDIUM exactly when that fails and the rate is at least 85 with
\* avg_response_time below 5, and HIGH exactly when both fail.
C14_RiskAssessment ==
    risk # "NONE"
    => LET low == RateAtLeast(stats, 95) /\ avg_response_time < 3
           medium == RateAtLeast(stats, 85) /\ avg_response_time < 5
       IN /\ risk \in {"LOW", "MEDIUM", "HIGH"}
          /\ risk = "LOW" <=> low
          /\ risk = "MEDIUM" <=> (~low /\ medium)
          /\ risk = "HIGH" <=> (~low /\ ~medium)

\* A rate of exactly 95 with avg_response_time exactly 3 is assessed MEDIUM.
C14_Witness ==
    /\ risk = "MEDIUM"
    /\ stats = [successful_pages |-> 19, failed_pages |-> 1]
    /\ avg_response_time = 3

\* The success rate of a is at most the success rate of b.
RateLeq(a, b) ==
    LET ta == a.successful_pages + a.failed_pages
        tb == b.successful_pages + b.failed_pages
        na == IF ta = 0 THEN 100 ELSE 100 * a.successful_pages
        da == IF ta = 0 THEN 1 ELSE ta
        nb == IF tb = 0 THEN 100 ELSE 100 * b.successful_pages
        db == IF tb = 0 THEN 1 ELSE tb
    IN na * db <= nb * da

Favourability(level) ==
    CASE level = "HIGH" -> 0 [] level = "MEDIUM" -> 1 [] level = "LOW" -> 2

\* C15: risk monotonicity. Of two assessments with the same
\* avg_response_time, the one with the higher (or equal) success rate has a
\* level at least as favourable, in the order HIGH < MEDIUM < LOW.
C15_RiskMonotonicity ==
    \A i, j \in DOMAIN history.assessed :
       LET a == history.assessed[i]
           b == history.assessed[j]
       IN (a.avg = b.avg /\ RateLeq(a.stats, b.stats))
             => Favourability(a.risk) <= Favourability(b.risk)

\* An assessment at 80 percent (HIGH) followed by one at 95 percent (LOW),
\* both with avg_response_time 2.
C15_Witness ==
    /\ Len(history.assessed) = 2
    /\ history.assessed[2].stats = [successful_pages |-> 16, failed_pages |-> 4]
    /\ history.assessed[2].risk = "HIGH"
    /\ history.assessed[1].stats = [successful_pages |-> 19, failed_pages |-> 1]
    /\ history.assessed[1].risk = "LOW"
    /\ history.assessed[1].avg = 2
    /\ history.assessed[2].avg = 2

----------------------------------------------------------------------------
(* Claims about the progress file of another version (checked under        *)
(* CompatSpec)                                                              *)

\* C16: forward-compatible decoding. No operation that reads a valid
\* progress file ends the run with an error because a key is missing from
\* the file or an unknown key is in it.
C16_ForwardCompatibleDecoding == io.op # "KeyError"

----------------------------------------------------------------------------
(* Claims about empty pages, next_session_time and resumed batches *)

CountOutcome(att, outcome) ==
    Cardinality({i \in DOMAIN att : att[i].outcome = outcome})

\* C17: an empty page is not a failure. During a batch, failed_pages has
\* grown by the number of pages whose fetch raised an error; a page that was
\* fetched without error and held no listing is not among them.
C17_EmptyPageNotFailure ==
    InBatch => stats.failed_pages
                  = statsAtStart.failed_pages + CountOutcome(attempted, "error")

\* The step is decide_continuation returning through schedule_tomorrow().
TomorrowStep == pc = "decide" /\ decision'.result = "TOMORROW"

C19_DeferredWorkHonoured ==
    [][ ( /\ HandOver \/ (pc = "page" /\ attempted' # attempted)
          /\ PROGRESS_FILE.kind = "json"
          /\ PROGRESS_FILE.next_session_time # NoTime )
        => Now(today, hour) >= PROGRESS_FILE.next_session_time ]_vars

\* The step is run_batch's progress update, saved, of a batch that an
\* earlier process had merged into the dataset (whose urls were unique then)
\* before it stopped short of the progress update; the pages returned the
\* same records again and the merge of the second run met no failure.
ResumedBatchSaved ==
    /\ pc = "progress"
    /\ pc' = "decide"
    /\ io'.save = "ok"
    /\ ~io'.read
    /\ CleanMerge(io)
    /\ history.stopped.id = current_batch.id
    /\ history.stopped.listings = listings
    /\ UniqueUrls(history.stopped.rows)

\* C20: resumable batch completion. After the second run of such a batch the
\* dataset holds the urls it held when the first run had merged them, none
\* of them twice, and completed_batches holds one record of the batch.
C20_ResumableBatchCompletion ==
    [][ ResumedBatchSaved
        => /\ UrlsOf(Rows) = UrlsOf(history.stopped.rows)
           /\ UniqueUrls(Rows)
           /\ Cardinality({i \in DOMAIN PROGRESS_FILE'.completed_batches :
                 PROGRESS_FILE'.completed_batches[i].id = current_batch.id}) = 1
      ]_vars

----------------------------------------------------------------------------
(* Claims about the run as a whole (C21 is checked under LiveSpec) *)

LargestBatch ==
    CHOOSE n \in {PagesOf(batches[i]) : i \in DOMAIN batches} :
       \A i \in DOMAIN batches : PagesOf(batches[i]) <= n

C22_SingleLiveSession ==
    /\ sessions <= 1
    /\ pc = "idle" => sessions = 0

\* The interval the break is to lie in for a risk level.
BreakRange(risk_level) ==
    CASE risk_level = "LOW" -> min_break_minutes .. (min_break_minutes + 30)
      [] risk_level = "MEDIUM" ->
            (min_break_minutes + 30) .. (min_break_minutes + 60)
      [] OTHER -> (min_break_minutes + 60) .. max_break_minutes

\* C23: break duration range. The break taken before "CONTINUE" lies in
\* [min, min + 30] for LOW, in [min + 30, min + 60] for MEDIUM and in
\* [min + 60, max] for HIGH.
C23_BreakDurationRange ==
    decision.result = "CONTINUE" => decision.break \in BreakRange(risk)

====
